---- MODULE Spec2Model ----
(***************************************************************************)
(* A model of the ConfettiExplosion component (src/src/index.tsx).         *)
(*                                                                         *)
(* One mounted instance of ConfettiExplosion is a state machine driven by  *)
(* its host: the parent re-renders it with new props, the host reports     *)
(* the container's layout, the JS runtime fires the completion timer, the  *)
(* UI thread advances the running animations frame by frame, and the host  *)
(* unmounts it.  A render is one atomic step: the body of the component,   *)
(* the commit of its children and the run of its effects.                  *)
(*                                                                         *)
(* Units.  Time is counted in ticks (one tick stands for a fixed number    *)
(* of milliseconds; durations are given in ticks).  Progress is counted    *)
(* in tenths (40 is the 4 of withTiming(4, ...), 32 is 3.2).  Opacity is   *)
(* counted in eighths (8 is opacity 1), which makes the interpolation      *)
(* from [3.2, 4] to [1, 0] exact.  Math.random() takes the values          *)
(* n / RandLevels, n in 0 .. RandLevels - 1.                               *)
(***************************************************************************)
EXTENDS Integers, Sequences, FiniteSets, TLC

VARIABLES
    mounted,           \* the instance is in the host's tree
    props,             \* the props of the most recent render
    layout,            \* useState({ width: 0, height: 0 })
    onCompleteRef,     \* onCompleteRef.current
    timer,             \* the timeout of the completion effect
    explosionConfigs,  \* the value held by useMemo
    pieces,            \* the mounted ExplosionConfettiPiece children, by key
    now,               \* the clock, in ticks since the instance was mounted
    completions,       \* how many times an onComplete function was invoked
    lastInvoked,       \* the function invoked by the last invocation
    regenerated,       \* the step that led to this state ran the generator
    probe              \* one piece's animated style, sampled frame by frame

vars == <<mounted, props, layout, onCompleteRef, timer, explosionConfigs,
          pieces, now, completions, lastInvoked, regenerated, probe>>

----------------------------------------------------------------------------
(* Bounds of the model *)

MaxTime == 3
MaxDuration == 2
MaxPieces == 2
RandLevels == 2

(* Program constants, in the model's units *)

ProgressEnd == 40
FadeStart == 32
OpacityOne == 8
DefaultPieceSize == 14
DefaultExplosionRadius == 850
DefaultDrag == 60
DefaultGravity == 400
DefaultLaunchForce == 4500
DefaultEmojiFrequency == 30

NoFn == "undefined"
Fns == {"f1", "f2"}
NoEmoji == "undefined"

Max(a, b) == IF a >= b THEN a ELSE b
Min(a, b) == IF a <= b THEN a ELSE b

(* An array prop is an object: a reference and its items.  Two arrays are *)
(* the same dependency when they are the same object.                     *)
DEFAULT_CONFETTI_COLORS == <<"#FF5252", "#FFD740", "#40C4FF", "#69F0AE", "#FF4081", "#7C4DFF">>
DEFAULT_CONFETTI_SHAPES == <<"bar", "slab", "heart">>

Array(ref, items) == [ref |-> ref, items |-> items]

----------------------------------------------------------------------------
(* The configuration generator: the body of useMemo *)

(* The n-th draw of Math.random() after the random source was in state   *)
(* seed, as a numerator over RandLevels.                                  *)
Random(seed, n) == (seed + n) % RandLevels

DrawsPerPiece(p) == IF p.emoji # NoEmoji THEN 9 ELSE 8

AngleStep(pieceCount) == IF pieceCount > 1 THEN 180 \div (pieceCount - 1) ELSE 0

(* One pass of the loop body for index (0-based).  drag, kX and kGravity  *)
(* are in hundredths, the two multipliers in tenths, upwardBias and       *)
(* gravity in tenths of their unit.                                       *)
PieceConfig(p, seed, index) ==
    LET base == index * DrawsPerPiece(p)
        e == IF p.emoji # NoEmoji THEN 1 ELSE 0
        baseAngle == 180 + index * AngleStep(p.pieceCount)
        drag == p.drag + (70 * Random(seed, base)) \div RandLevels
        gravityMultiplier == 6 + (8 * Random(seed, base + 1)) \div RandLevels
        upwardBiasMultiplier == 2 + (8 * Random(seed, base + 2)) \div RandLevels
        useEmoji == /\ p.emoji # NoEmoji
                    /\ 100 * Random(seed, base + 3) < p.emojiFrequency * RandLevels
        shapeIndex == (Random(seed, base + 3 + e) * Len(p.shapes.items)) \div RandLevels
        colorIndex == (Random(seed, base + 4 + e) * Len(p.colors.items)) \div RandLevels
    IN  [ size |-> (6 * Random(seed, base + 5 + e)) \div RandLevels + p.pieceSize,
          shape |-> IF useEmoji THEN p.emoji ELSE p.shapes.items[shapeIndex + 1],
          color |-> p.colors.items[colorIndex + 1],
          delay |-> 0,
          duration |-> p.duration,
          rotationSpeed |-> (180 * Random(seed, base + 6 + e)) \div RandLevels + 90,
          baseAngle |-> baseAngle,
          explosionDistance |-> (Random(seed, base + 7 + e) * p.explosionRadius) \div RandLevels,
          gravityMultiplier |-> gravityMultiplier,
          drag |-> drag,
          upwardBiasMultiplier |-> upwardBiasMultiplier,
          kX |-> drag * 3,
          kGravity |-> Max(50, drag * 2),
          upwardBias |-> (0 - p.launchForce) * upwardBiasMultiplier,
          gravity |-> p.gravity * gravityMultiplier ]

Generate(p, seed) ==
    [i \in 1 .. Max(0, p.pieceCount) |-> PieceConfig(p, seed, i - 1)]

(* The dependency list of useMemo, compared entry by entry with Object.is: *)
(* an array by its reference, a primitive by its value.                    *)
MemoDeps(p) ==
    <<p.colors.ref, p.drag, p.duration, p.emoji, p.emojiFrequency, p.gravity,
      p.launchForce, p.explosionRadius, p.pieceCount, p.pieceSize, p.shapes.ref>>

MemoStale(old, new) == MemoDeps(old) # MemoDeps(new)

----------------------------------------------------------------------------
(* The completion effect *)

NoTimer == [state |-> "none", expiry |-> 0, armedWith |-> NoFn]

EffectSkipsOffByOne(duration) == duration < 0

EffectSkips(duration) == duration <= 0

SetTimeoutNoDelay(duration, t, fn) ==
    [state |-> "pending", expiry |-> t, armedWith |-> fn]

(* setTimeout(..., duration) at time t; armedWith records the onComplete  *)
(* of the render that armed the timer (the callback does not capture it). *)
SetTimeout(duration, t, fn) ==
    [state |-> "pending", expiry |-> t + duration, armedWith |-> fn]

ClearTimeoutMissing(t) == t

(* clearTimeout(timer): a pending timeout is removed, any other is left.  *)
ClearTimeout(t) ==
    IF t.state = "pending" THEN [t EXCEPT !.state = "cleared"] ELSE t

RunEffect(p, t) ==
    IF EffectSkips(p.duration) THEN NoTimer ELSE SetTimeout(p.duration, t, p.onComplete)

(* A re-render runs the cleanup and the effect again only when the        *)
(* dependency list [duration] changed.                                    *)
EffectAfterRender(old, new, tm, t) ==
    IF old.duration # new.duration
    THEN LET cleared == ClearTimeout(tm)
         IN  IF EffectSkips(new.duration)
             THEN cleared
             ELSE SetTimeout(new.duration, t, new.onComplete)
    ELSE tm

RefKeepsFirst(ref, p) == ref

(* onCompleteRef.current = onComplete, in the body of every render *)
RefAfterRender(ref, p) == p.onComplete

----------------------------------------------------------------------------
(* ExplosionConfettiPiece *)

AnimatedOpacityUnclamped(progress) == OpacityOne - (progress - FadeStart)

(* interpolate(progress, [3.2, 4], [1, 0], 'clamp') *)
AnimatedOpacity(progress) ==
    IF progress <= FadeStart THEN OpacityOne
    ELSE IF progress >= ProgressEnd THEN 0
    ELSE OpacityOne
         - ((progress - FadeStart) * OpacityOne) \div (ProgressEnd - FadeStart)

ShouldStartAlways(value) == TRUE

(* if (animation.value === 0) *)
ShouldStart(value) == value = 0

NoAnimation == [running |-> FALSE, from |-> 0, start |-> 0, duration |-> 0]

(* animation.value = withDelay(config.delay, withTiming(4, { duration })): *)
(* a linear run from the current value to 4, starting at time t.           *)
StartAnimation(piece, config, t) ==
    [piece EXCEPT !.animation = [running |-> TRUE, from |-> piece.value,
                                 start |-> t + config.delay,
                                 duration |-> config.duration]]

(* The body of the piece, on its mount and on every re-render of it *)
RenderPiece(piece, config, origin, t) ==
    LET withProps == [piece EXCEPT !.config = config, !.origin = origin]
    IN  IF ShouldStart(piece.value)
        THEN StartAnimation(withProps, config, t)
        ELSE withProps

(* useSharedValue(0) on the first render of a piece *)
NewPiece(config, origin) ==
    [config |-> config, origin |-> origin, value |-> 0, animation |-> NoAnimation]

(* One frame of the UI thread at time t: a running animation moves its    *)
(* shared value along the linear easing; when it reaches 4 it is finished *)
(* and removed from the shared value.                                     *)
StepAnimation(piece, t) ==
    LET a == piece.animation
    IN  IF ~a.running \/ t < a.start THEN piece
        ELSE IF a.duration <= 0 \/ t - a.start >= a.duration
        THEN [piece EXCEPT !.value = ProgressEnd, !.animation = NoAnimation]
        ELSE [piece EXCEPT !.value =
                a.from + ((ProgressEnd - a.from) * (t - a.start)) \div a.duration]

----------------------------------------------------------------------------
(* ConfettiExplosion *)

ShouldRenderPiecesWidthOnly(lay) == lay.width > 0

(* layout.width > 0 && layout.height > 0 && explosionConfigs.map(...) *)
ShouldRenderPieces(lay) == lay.width > 0 /\ lay.height > 0

(* origin ?? { x: layout.width / 2, y: layout.height } *)
ResolvedOrigin(p, lay) ==
    IF p.origin # "undefined" THEN p.origin
    ELSE [x |-> lay.width \div 2, y |-> lay.height]

(* The children after a render: keyed by index, so a piece that was       *)
(* mounted keeps its shared value, and a new index mounts a new piece.    *)
Children(old, configs, p, lay, t) ==
    IF ShouldRenderPieces(lay)
    THEN [i \in 1 .. Len(configs) |->
            RenderPiece(IF i <= Len(old) THEN old[i]
                        ELSE NewPiece(configs[i], ResolvedOrigin(p, lay)),
                        configs[i], ResolvedOrigin(p, lay), t)]
    ELSE <<>>

(* One render of the mounted instance with props p and layout lay, its    *)
(* commit and its effects.                                                *)
Render(p, lay) ==
    /\ props' = p
    /\ layout' = lay
    /\ onCompleteRef' = RefAfterRender(onCompleteRef, p)
    /\ timer' = EffectAfterRender(props, p, timer, now)
    /\ IF MemoStale(props, p)
       THEN /\ \E seed \in 0 .. RandLevels - 1 :
                 explosionConfigs' = Generate(p, seed)
            /\ regenerated' = TRUE
       ELSE /\ explosionConfigs' = explosionConfigs
            /\ regenerated' = FALSE
    /\ pieces' = Children(pieces, explosionConfigs', p, lay, now)
    /\ UNCHANGED <<mounted, now, completions, lastInvoked, probe>>

----------------------------------------------------------------------------
(* The props the host may pass *)

DefaultProps ==
    [ pieceCount |-> 1, duration |-> 1,
      colors |-> Array(1, DEFAULT_CONFETTI_COLORS),
      shapes |-> Array(1, DEFAULT_CONFETTI_SHAPES),
      emoji |-> NoEmoji, emojiFrequency |-> DefaultEmojiFrequency,
      pieceSize |-> DefaultPieceSize, origin |-> "undefined",
      explosionRadius |-> DefaultExplosionRadius, drag |-> DefaultDrag,
      gravity |-> DefaultGravity, launchForce |-> DefaultLaunchForce,
      onComplete |-> "f1" ]

Durations == -1 .. MaxDuration
PieceCounts == -1 .. MaxPieces
Callbacks == Fns \cup {NoFn}

(* Array 1 is the exported default, array 2 another object with the same  *)
(* items (an inline literal), array 3 an object with other items.         *)
ColorArrays == { Array(1, DEFAULT_CONFETTI_COLORS),
                 Array(2, DEFAULT_CONFETTI_COLORS),
                 Array(3, <<"#FF9800">>) }
ShapeArrays == { Array(1, DEFAULT_CONFETTI_SHAPES),
                 Array(2, DEFAULT_CONFETTI_SHAPES) }
Emojis == {NoEmoji, "party"}

(* The host varies the duration and the callback of an explosion with no *)
(* pieces.                                                               *)
TimerProps ==
    { [DefaultProps EXCEPT !.pieceCount = 0, !.duration = d, !.onComplete = f] :
        d \in Durations, f \in Callbacks }

(* The host varies the duration and the number of pieces *)
PieceProps ==
    { [DefaultProps EXCEPT !.pieceCount = n, !.duration = d] :
        n \in {1, MaxPieces}, d \in Durations }

(* The host varies the request of the generator *)
RequestProps ==
    { [DefaultProps EXCEPT !.pieceCount = n, !.colors = c, !.shapes = sh, !.emoji = e] :
        n \in PieceCounts, c \in ColorArrays, sh \in ShapeArrays, e \in Emojis }

(* The sizes the host reports: not laid out, collapsed to no height, and  *)
(* laid out.                                                              *)
Layouts == { [width |-> 0, height |-> 0], [width |-> 100, height |-> 0],
             [width |-> 100, height |-> 200] }

NoProbe == [progress |-> 0, opacity |-> OpacityOne, before |-> 0, opacityBefore |-> OpacityOne]

----------------------------------------------------------------------------
(* The mount: the first render, with the layout not yet measured, and the *)
(* first run of the effect, at time 0.                                     *)
Mount(Choices) ==
    /\ mounted = TRUE
    /\ props \in Choices
    /\ layout = [width |-> 0, height |-> 0]
    /\ onCompleteRef = props.onComplete
    /\ now = 0
    /\ timer = RunEffect(props, now)
    /\ explosionConfigs \in { Generate(props, seed) : seed \in 0 .. RandLevels - 1 }
    /\ pieces = Children(<<>>, explosionConfigs, props, layout, now)
    /\ completions = 0
    /\ lastInvoked = NoFn
    /\ regenerated = TRUE
    /\ probe = NoProbe

(* The parent re-renders the instance with props p *)
Rerender(Choices) ==
    /\ mounted
    /\ \E p \in Choices : Render(p, layout)

(* onLayout: setLayout({ width, height }), and the re-render it causes *)
OnLayout ==
    /\ mounted
    /\ \E lay \in Layouts : Render(props, lay)

(* The timeout expires: onCompleteRef.current?.() *)
TimerFires ==
    /\ timer.state = "pending"
    /\ now >= timer.expiry
    /\ timer' = [timer EXCEPT !.state = "fired"]
    /\ IF onCompleteRef # NoFn
       THEN completions' = completions + 1 /\ lastInvoked' = onCompleteRef
       ELSE UNCHANGED <<completions, lastInvoked>>
    /\ regenerated' = FALSE
    /\ UNCHANGED <<mounted, props, layout, onCompleteRef, explosionConfigs,
                   pieces, now, probe>>

(* A frame of the UI thread: every running animation advances *)
Frame ==
    /\ mounted
    /\ \E i \in 1 .. Len(pieces) : pieces[i].animation.running
    /\ pieces' = [i \in 1 .. Len(pieces) |-> StepAnimation(pieces[i], now)]
    /\ regenerated' = FALSE
    /\ UNCHANGED <<mounted, props, layout, onCompleteRef, timer, explosionConfigs,
                   now, completions, lastInvoked, probe>>

(* Time passes *)
Tick ==
    /\ now < MaxTime
    /\ now' = now + 1
    /\ regenerated' = FALSE
    /\ UNCHANGED <<mounted, props, layout, onCompleteRef, timer, explosionConfigs,
                   pieces, completions, lastInvoked, probe>>

(* The host removes the instance: the cleanup of the effect runs and the  *)
(* pieces are unmounted.                                                  *)
Unmount ==
    /\ mounted
    /\ mounted' = FALSE
    /\ timer' = ClearTimeout(timer)
    /\ pieces' = <<>>
    /\ regenerated' = FALSE
    /\ UNCHANGED <<props, layout, onCompleteRef, explosionConfigs, now,
                   completions, lastInvoked, probe>>

RerenderTimer == Rerender(TimerProps)
RerenderPieces == Rerender(PieceProps)
RerenderRequest == Rerender(RequestProps)

(* The pieces and the timer of an explosion whose duration and number of  *)
(* pieces the host changes.                                               *)
Init == Mount(PieceProps)
Next == RerenderPieces \/ OnLayout \/ TimerFires \/ Frame \/ Tick \/ Unmount
Spec == Init /\ [][Next]_vars

(* The completion timer of an explosion whose duration and callback the   *)
(* host changes; it has no pieces, so no frame is ever due.               *)
InitTimer == Mount(TimerProps)
NextTimer == RerenderTimer \/ OnLayout \/ TimerFires \/ Tick \/ Unmount
SpecTimer == InitTimer /\ [][NextTimer]_vars

(* The generator and the children of an explosion whose request the host  *)
(* changes.                                                               *)
InitRequest == Mount(RequestProps)
NextRequest == RerenderRequest \/ OnLayout \/ TimerFires \/ Frame \/ Tick \/ Unmount
SpecRequest == InitRequest /\ [][NextRequest]_vars

(* The animated style of one piece, sampled as its progress advances:     *)
(* the worklet runs again at every progress value the UI thread observes. *)
InitEval == Mount({DefaultProps})

Sample ==
    /\ \E p \in probe.progress .. ProgressEnd :
         probe' = [progress |-> p, opacity |-> AnimatedOpacity(p),
                   before |-> probe.progress, opacityBefore |-> probe.opacity]
    /\ UNCHANGED <<mounted, props, layout, onCompleteRef, timer, explosionConfigs,
                   pieces, now, completions, lastInvoked, regenerated>>

NextEval == Sample
SpecEval == InitEval /\ [][NextEval]_vars

----------------------------------------------------------------------------
(* Properties *)

LaidOut == layout.width > 0 /\ layout.height > 0

AllPiecesDone ==
    /\ Len(pieces) = Len(explosionConfigs)
    /\ \A i \in 1 .. Len(pieces) : pieces[i].value = ProgressEnd

(* The two requests are identical: the same options, and arrays with the  *)
(* same items, whether or not they are the same objects.                  *)
SameRequest(a, b) ==
    /\ a.pieceCount = b.pieceCount /\ a.duration = b.duration
    /\ a.colors.items = b.colors.items /\ a.shapes.items = b.shapes.items
    /\ a.emoji = b.emoji /\ a.emojiFrequency = b.emojiFrequency
    /\ a.pieceSize = b.pieceSize /\ a.explosionRadius = b.explosionRadius
    /\ a.drag = b.drag /\ a.gravity = b.gravity /\ a.launchForce = b.launchForce

(* C1: over the lifetime of one instance an onComplete function is        *)
(* invoked at most once, whatever the host re-renders, the duration       *)
(* included.                                                              *)
C1_InvokedOnce == completions <= 1

(* C2: whenever onComplete is invoked, every particle of the instance is  *)
(* rendered and its progress has reached its final value 4.               *)
C2_CompleteWhenPiecesDone ==
    [][completions' > completions => AllPiecesDone]_vars

(* C3: once the instance is torn down its completion timer is not pending *)
(* and onComplete is not invoked at any later time.                       *)
C3_CancelledOnTeardown ==
    [][ /\ ~mounted' => timer'.state # "pending"
        /\ ~mounted => completions' = completions ]_vars

C3_Witness ==
    /\ ~mounted /\ timer.state = "cleared" /\ now < timer.expiry
    /\ props.duration > 0 /\ onCompleteRef # NoFn /\ completions = 0

(* C4: onComplete is invoked no earlier than the configured duration      *)
(* after the start of the explosion (the mount, at time 0).               *)
C4_NotBeforeDuration ==
    [][completions' > completions => now - 0 >= props.duration]_vars

C4_Witness ==
    /\ timer.state = "fired" /\ completions = 1
    /\ props.duration > 0 /\ now = props.duration

(* C5: while duration <= 0 no completion timer is scheduled and           *)
(* onComplete is not invoked.                                             *)
C5_DisabledWhenNotPositive ==
    [][ /\ props.duration <= 0 => timer.state # "pending"
        /\ props'.duration <= 0 => timer'.state # "pending"
        /\ props.duration <= 0 /\ props'.duration <= 0
              => completions' = completions ]_vars

C5_Witness ==
    /\ mounted /\ props.duration <= 0 /\ onCompleteRef # NoFn
    /\ timer.state = "none" /\ now > 0 /\ completions = 0

(* C6: the number of rendered particles is 0 while the measured size is   *)
(* not nonzero and max(0, pieceCount) once it is, and the generator       *)
(* yields max(0, pieceCount) records.                                     *)
C6_PieceCount ==
    /\ Len(explosionConfigs) = Max(0, props.pieceCount)
    /\ mounted => Len(pieces) = IF LaidOut THEN Max(0, props.pieceCount) ELSE 0

C6_Witness ==
    /\ mounted /\ LaidOut /\ props.pieceCount = MaxPieces
    /\ Len(pieces) = MaxPieces

(* C7: a re-render with an identical request, whether or not its arrays   *)
(* are the same objects, leaves every parameter record unchanged and      *)
(* does not run the generator.                                            *)
C7_NeverRerolled ==
    [][mounted /\ mounted' /\ SameRequest(props, props')
          => explosionConfigs' = explosionConfigs /\ ~regenerated']_vars

(* C8: opacity is 1 for progress below 3.2, follows the line from 1 at    *)
(* 3.2 to 0 at 4, never increases with progress, stays within [0, 1] and  *)
(* is 0 at progress 4.                                                    *)
C8_Opacity ==
    /\ probe.progress < FadeStart => probe.opacity = OpacityOne
    /\ probe.progress >= FadeStart =>
          probe.opacity * (ProgressEnd - FadeStart)
             = OpacityOne * (ProgressEnd - probe.progress)
    /\ probe.before <= probe.progress => probe.opacity <= probe.opacityBefore
    /\ probe.opacity \in 0 .. OpacityOne
    /\ probe.progress = ProgressEnd => probe.opacity = 0

C8_Witness ==
    /\ FadeStart < probe.before /\ probe.before < probe.progress
    /\ probe.progress < ProgressEnd
    /\ 0 < probe.opacity /\ probe.opacity < probe.opacityBefore
    /\ probe.opacityBefore < OpacityOne

(* C9: the progress of a mounted particle never decreases, stays within   *)
(* [0, 4], and once it is 4 it stays 4 and no animation is started again. *)
C9_NeverBackward ==
    [][\A i \in 1 .. Min(Len(pieces), Len(pieces')) :
          /\ pieces'[i].value >= pieces[i].value
          /\ pieces'[i].value \in 0 .. ProgressEnd
          /\ pieces[i].value = ProgressEnd =>
                /\ pieces'[i].value = ProgressEnd
                /\ ~pieces'[i].animation.running ]_vars

C9_Witness ==
    /\ mounted /\ regenerated
    /\ \E i \in 1 .. Len(pieces) :
          pieces[i].value = ProgressEnd /\ ~pieces[i].animation.running
    /\ \E i \in 1 .. Len(pieces) :
          pieces[i].value > 0 /\ pieces[i].value < ProgressEnd

(* C10: a re-render that changes only onComplete leaves a pending timer   *)
(* as it is, and the expiry invokes the onComplete of the most recent     *)
(* render, or nothing when that is absent.                                *)
C10_LatestCallback ==
    [][ /\ ( /\ mounted' /\ timer.state = "pending"
             /\ props'.onComplete # props.onComplete
             /\ props' = [props EXCEPT !.onComplete = props'.onComplete] )
           => timer' = timer
        /\ (timer.state = "pending" /\ timer'.state = "fired") =>
              IF props.onComplete = NoFn
              THEN completions' = completions /\ lastInvoked' = lastInvoked
              ELSE /\ completions' = completions + 1
                   /\ lastInvoked' = props.onComplete ]_vars

C10_Witness ==
    /\ timer.state = "fired" /\ completions = 1
    /\ lastInvoked = props.onComplete /\ lastInvoked # timer.armedWith
    /\ timer.armedWith # NoFn

====
